---- MODULE Spec2Model ----
(***************************************************************************)
(* Model of the zlapi client core (src/zlapi/simple/_async.py): the poll   *)
(* loop ZaloAPI._listen, startListening / stopListening, the handler chain *)
(* built by add_register_handler, the handler registry, the response       *)
(* unwrapping shared by the gateway-backed calls, the session (__init__,   *)
(* set_session, set_secret_key, login), the calls that take a thread_type, *)
(* listen and the _encode / _decode pair.                                  *)
(*                                                                         *)
(* Time: `now` is the wall clock in whole seconds; message timestamps are  *)
(* in milliseconds, as message["ts"] is.                                   *)
(***************************************************************************)
EXTENDS Integers, Sequences, FiniteSets, TLC

\* ------------------------------------------------------------------ bounds
MaxSnap == 2                        \* longest direct / group list of a snapshot
MaxFetch == 2                       \* poll fetches started in one behaviour
MaxReg == 2                         \* register_handler calls at setup
MaxOps == 3                         \* calls of the client's API in one behaviour
HasReadCap == 1                     \* the cap on len(HasRead): 10000000 in _listen, scaled

Ids == {"m1", "m2", "m3"}           \* message ids the service may deliver
Times == <<21, 27>>                 \* the clock readings (s), in order
\* age (ms) a message may have when the service first lists it
Ages(m) ==
  CASE m = "m1" -> {3000}
    [] m = "m2" -> {10000, 20000}
    [] OTHER    -> {0, 10001}

\* the lists of the snapshot a message may be put on
Places(m) == IF m = "m1" THEN {"direct", "group", "both"} ELSE {"direct", "group"}

\* ------------------------------------------------------ program constants
LookBack == 10                      \* seconds subtracted from time.time()

VARIABLES
  now,                \* time.time(), seconds
  srvMsgs,            \* service side: the direct list of the latest snapshot
  srvGroup,           \* service side: the group list of the latest snapshot
  condition,          \* self._condition (threading.Event), the stop signal
  listening,          \* self._listening
  pc2,                \* position of a second _listen coroutine, on the caller's thread
  mode,               \* how the current _listen was started: blocking / thread
  pc,                 \* position of the _listen coroutine
  ListenTime,         \* local ListenTime of _listen (ms)
  HasRead,            \* local HasRead of _listen
  messages,           \* local messages of _listen: the direct list fetched
  groupmsg,           \* local groupmsg of _listen: the group list fetched
  idx,                \* position of the for loop in messages + groupmsg
  run,                \* the current _listen, named by the ordinal of its first fetch
  nfetch,             \* number of get_last_msgs calls issued by the loop
  nclear,             \* number of HasRead.clear() calls of the current _listen
  tasks,              \* handler tasks created by loop.create_task, in order
  hold,               \* index of the task running a non-yielding section, or 0
  prefix,             \* self.prefix
  register_commands,  \* self.register_commands: key -> handler
  register_messages,  \* self.register_messages: list of <<handler, condition>>
  nreg,               \* number of register_handler calls so far
  call,               \* the gateway-backed call under way: method, response, result
  client,             \* self._state, self.uid, self._imei, and the log of hooks and requests
  ret                 \* the last call of the client's API: what it returned or raised

vars == <<now, srvMsgs, srvGroup, condition, listening, pc2, mode, pc, ListenTime,
          HasRead, messages, groupmsg, idx, run, nfetch, nclear, tasks, hold,
          prefix, register_commands, register_messages, nreg, call, client, ret>>

envVars == <<now, srvMsgs, srvGroup>>
flagVars == <<condition, listening, pc2>>
loopVars == <<mode, pc, ListenTime, HasRead, messages, groupmsg, idx, run, nfetch, nclear>>
regVars == <<prefix, register_commands, register_messages, nreg>>
sessVars == <<client, ret>>

\* ------------------------------------------------------- message contents
\* A content is a JSON value: a string, or a value that is not a string.
\* Str models Python's str(): the identity on strings, the textual form of
\* anything else.
StrVal(s) == [t |-> "str", v |-> s]
OtherVal(s) == [t |-> "other", v |-> s]      \* v is the text str() gives
Str(c) == c.v

\* content carried by each message id
ContentOf(m) ==
  CASE m = "m1" -> StrVal("/info")
    [] m = "m2" -> StrVal("hi")
    [] OTHER    -> OtherVal("5")

\* message dict of the snapshot
Message(m, t) == [msgId |-> m, ts |-> t, content |-> ContentOf(m)]

\* ------------------------------------------------------- handler registry
Funcs == {"h1", "h2"}                          \* user handler functions
Prefixes == {"", "/"}
NoArg == "None"
\* predicates a pattern registration may carry
Conditions == {"any", "slash", "never"}
condition_holds(c, s) ==
  CASE c = "any"   -> TRUE
    [] c = "slash" -> s \in {"/info", "/5"}
    [] OTHER       -> FALSE
\* the `commands` argument: None, one string, or a list of strings
CmdArg(k, v) == [kind |-> k, val |-> v]
CommandArgs == {CmdArg("none", <<>>), CmdArg("str", <<"info">>), CmdArg("str", <<"5">>),
                CmdArg("list", <<"info", "5">>), CmdArg("list", <<"hi">>)}
MessageArgs == {NoArg} \cup Conditions

EmptyDict == [k \in {} |-> "h1"]
Put(d, k, f) == [x \in (DOMAIN d) \cup {k} |-> IF x = k THEN f ELSE d[x]]
KeysOf(cmds) == {prefix \o cmds[i] : i \in 1..Len(cmds)}

\* register_handler(message, commands)(func)
register_handler(func, message, commands) ==
  /\ register_commands' =
       CASE commands.kind = "none" -> register_commands
         [] commands.kind = "str"  -> Put(register_commands, prefix \o commands.val[1], func)
         [] OTHER -> [k \in KeysOf(commands.val) |-> func]
  /\ register_messages' =
       IF message # NoArg THEN Append(register_messages, <<func, message>>)
       ELSE register_messages

\* ---------------------------------------------------------- handler chain
\* The wrapper of add_register_handler run on one event: the steps it takes,
\* in order.  A step is the call of a handler, or the failing dictionary
\* lookup register_commands[ctx.message] (the membership test is made on
\* str(ctx.message), the lookup on ctx.message itself).
Call(h, src, n) == [op |-> "call", h |-> h, src |-> src, n |-> n]
LookupError == [op |-> "keyerror", h |-> "-", src |-> "cmd", n |-> 0]

CommandSteps(content) ==
  IF Str(content) \in DOMAIN register_commands
  THEN IF content.t = "str"
       THEN << Call(register_commands[content.v], "cmd", 0) >>
       ELSE << LookupError >>
  ELSE << >>

RECURSIVE MessageSteps(_, _)
MessageSteps(content, i) ==
  IF i > Len(register_messages) THEN << >>
  ELSE (IF condition_holds(register_messages[i][2], Str(content))
        THEN << Call(register_messages[i][1], "msg", i) >>
        ELSE << >>) \o MessageSteps(content, i + 1)

add_register_handler_PatternsFirst(content) ==
  << Call("on_message", "base", 0) >> \o MessageSteps(content, 1) \o CommandSteps(content)
add_register_handler(content) ==
  << Call("on_message", "base", 0) >> \o CommandSteps(content) \o MessageSteps(content, 1)

\* what a handler coroutine (user code) may do when it is called: return,
\* raise, suspend at an await, or run a section that does not yield to the
\* event loop
Outcomes == {"return", "raise", "await", "block"}

\* ---------------------------------------------------------------- tasks
\* loop.create_task(self.onMessage(context)) for one message of the snapshot
Task(message, tt) ==
  [id |-> message.msgId, content |-> message.content, ts |-> message.ts,
   thread_type |-> tt, run |-> run, fetch |-> nfetch, epoch |-> nclear,
   mode |-> mode, st |-> "pending", k |-> 1, inv |-> << >>]

Unfinished == {"pending", "ready", "awaiting", "blocking"}
Running == {"top", "body", "fetching", "scanning", "sleeping"}
Yielded == {"fetching", "sleeping"}

\* asyncio.run(...) cancels every task of its loop that is not done when the
\* main coroutine ends; loop.run_until_complete(...) leaves them as they are
CancelAll(ts) ==
  [i \in 1..Len(ts) |->
     IF ts[i].st \in Unfinished /\ ts[i].mode = "blocking"
     THEN [ts[i] EXCEPT !.st = "cancelled"] ELSE ts[i]]

EndOfLoop(ts) == IF mode = "blocking" THEN CancelAll(ts) ELSE ts

\* ------------------------------------------------------ response unwrapping
\* JSON values: null, a string (by its text), a mapping (by a name)
JNull == [j |-> "null", v |-> ""]
JStr(text) == [j |-> "str", v |-> text]
JMap(name) == [j |-> "map", v |-> name]
JErr(code, of) == [j |-> "err", v |-> of, code |-> code]   \* {error_code, error_message}

\* json.loads on the texts of the model; "invalid" when it raises
json_loads(text) ==
  CASE text = "{snapshot}"   -> JMap("snapshot")
    [] text = "\"quoted\""   -> JStr("quoted")
    [] OTHER                 -> [j |-> "invalid", v |-> text]
Texts == {"{snapshot}", "\"quoted\"", "oops", ""}

\* Python truthiness of a value read with .get("data")
Truthy(x) == ~(x.j = "null" \/ (x.j = "str" /\ x.v = ""))

\* the decoded (inner) envelope: {error_code, data}
InnerCodes == {0, 114}
InnerData == {JNull, JMap("snapshot")} \cup {JStr(t) : t \in Texts}
Envelope(code, data) == [error_code |-> code, data |-> data]
InnerEnvelopes == {Envelope(c, d) : c \in InnerCodes, d \in InnerData}

\* the outer response body: error_code and data, data being absent (null),
\* empty, or the encoded form of an inner envelope
OuterCodes == {0, 112, -69}

\* _util.zalo_encode(params, key) / _util.zalo_decode(payload, key): a pair
\* of inverse transformations under one key; decoding under another key fails
zalo_encode(params, key) == [j |-> "enc", v |-> "payload", inner |-> params, key |-> key]
DecodeError == [j |-> "invalid", v |-> "DecodeError"]
zalo_decode(payload, key) == IF payload.key = key THEN payload.inner ELSE DecodeError

\* self._encode(params): zalo_encode under the session's secret key
_encode(params) == zalo_encode(params, client.secret_key)

\* what the service sends: an inner envelope encoded under the session's key
Enc(inner) == zalo_encode(inner, client.secret_key)
OuterData == {JNull, JStr("")} \cup {Enc(e) : e \in InnerEnvelopes}
Responses == {Envelope(c, d) : c \in OuterCodes, d \in OuterData}

\* self._decode(params): zalo_decode under the session's secret key
_decode_StaleKey(payload) == zalo_decode(payload, "k0")
_decode(payload) == zalo_decode(payload, client.secret_key)

Return(v) == [kind |-> "return", value |-> v, code |-> 0]
Raise(exc, code) == [kind |-> "raise", value |-> JStr(exc), code |-> code]

\* the unwrapping shared by the calls, after the decode
Unwrap(results) ==
  LET r1 == IF results = JNull THEN JErr(1337, "Data is None") ELSE results
  IN IF r1.j = "str"
     THEN (IF json_loads(r1.v).j = "invalid" THEN JErr(1337, r1.v) ELSE json_loads(r1.v))
     ELSE r1

\* get_last_msgs, from the response of self._get on
get_last_msgs(data) ==
  LET results == IF data.error_code = 0 THEN data.data ELSE JNull IN
  IF Truthy(results)
  THEN LET dec == _decode(results)
           inner == IF dec.error_code = 0 THEN dec.data ELSE JErr(dec.error_code, "inner")
       IN Return(Unwrap(inner))
  ELSE Raise("ZaloAPIException", data.error_code)

\* send_message, from the response of self._post on
send_message(data) ==
  LET results == IF data.error_code = 0 THEN data.data ELSE JNull IN
  IF Truthy(results)
  THEN LET dec == _decode(results)
           inner == IF Truthy(dec.data) THEN dec.data ELSE JErr(dec.error_code, "inner")
       IN Return(Unwrap(inner))
  ELSE Raise("ZaloAPIException", data.error_code)

Methods == {"get_last_msgs", "send_message"}
Apply(method, data) ==
  IF method = "get_last_msgs" THEN get_last_msgs(data) ELSE send_message(data)

NoCall == [method |-> "none", st |-> "none", resp |-> Envelope(0, JNull), result |-> Return(JNull)]

\* a gateway-backed call is made and the service's response arrives
Respond(method, data) ==
  /\ call.st \in {"none", "done"}
  /\ pc = "idle"
  /\ call' = [method |-> method, st |-> "responded", resp |-> data, result |-> Return(JNull)]
  /\ UNCHANGED <<envVars, flagVars, loopVars, tasks, hold, regVars, sessVars>>

\* the call unwraps the response and returns or raises
Complete ==
  /\ call.st = "responded"
  /\ call' = [call EXCEPT !.st = "done", !.result = Apply(call.method, call.resp)]
  /\ UNCHANGED <<envVars, flagVars, loopVars, tasks, hold, regVars, sessVars>>

\* ------------------------------------------------------------- poll loop
\* int((time.time() - 10) * 1000)
ListenTimeAt_NoLookBack(t) == t * 1000
ListenTimeAt(t) == (t - LookBack) * 1000

\* `message in messages`: equality with an element of the direct list
InList_ObjectCompared(x, list) == FALSE
InList(x, list) == \E j \in 1..Len(list) : list[j] = x

\* `messages + groupmsg`, the list the for loop goes through
Snapshot_GroupFirst(msgs, grp) == grp \o msgs
Snapshot(msgs, grp) == msgs \o grp

\* self._condition.is_set()
is_set_Never == FALSE
is_set == condition

\* len(HasRead) > 10000000
ClearNeeded_AtCap(hr) == Cardinality(hr) >= HasReadCap
ClearNeeded(hr) == Cardinality(hr) > HasReadCap

\* int(message["ts"]) >= ListenTime and message["msgId"] not in HasRead
ShouldDispatch_NoSeenCheck(message, lt, hr) == message.ts >= lt
ShouldDispatch_Strict(message, lt, hr) == message.ts > lt /\ message.msgId \notin hr
ShouldDispatch(message, lt, hr) == message.ts >= lt /\ message.msgId \notin hr

\* HasRead after the for loop has looked at one item: HasRead.add(msgId) is
\* inside the if
Seen_AddAlways(message, lt, hr) == hr \cup {message.msgId}
Seen(message, lt, hr) ==
  IF ShouldDispatch(message, lt, hr) THEN hr \cup {message.msgId} ELSE hr

\* startListening(delay, test=False, thread): clears the stop signal, then
\* runs _listen on a new loop in the caller's thread (asyncio.run) or submits
\* loop.run_until_complete(_listen) to the pool, loop being the caller's
\* event loop.
\*  - No _listen running: _listen starts.
\*  - A _listen running in the pool (thread mode) and thread=False: the
\*    caller's thread has no running loop, asyncio.run starts a second
\*    _listen there, beside the first.
\*  - Otherwise asyncio refuses (the loop is already running, or asyncio.run
\*    is called from a running loop) and only the flags change.
start_NoClear(thread) ==
  /\ condition' = condition
  /\ listening' = IF thread THEN TRUE ELSE listening
  /\ CASE pc \notin Running /\ pc2 \notin Running ->
            /\ run' = nfetch + 1
            /\ pc' = "top"
            /\ mode' = IF thread THEN "thread" ELSE "blocking"
            /\ HasRead' = {}
            /\ nclear' = 0
            /\ UNCHANGED <<pc2, ListenTime, messages, groupmsg, idx, nfetch>>
       [] pc \in Running /\ mode = "thread" /\ ~thread /\ pc2 \notin Running ->
            /\ pc2' = "top"
            /\ UNCHANGED loopVars
       [] OTHER -> UNCHANGED <<pc2, loopVars>>
start(thread) ==
  /\ condition' = FALSE
  /\ listening' = IF thread THEN TRUE ELSE listening
  /\ CASE pc \notin Running /\ pc2 \notin Running ->
            /\ run' = nfetch + 1
            /\ pc' = "top"
            /\ mode' = IF thread THEN "thread" ELSE "blocking"
            /\ HasRead' = {}
            /\ nclear' = 0
            /\ UNCHANGED <<pc2, ListenTime, messages, groupmsg, idx, nfetch>>
       [] pc \in Running /\ mode = "thread" /\ ~thread /\ pc2 \notin Running ->
            /\ pc2' = "top"
            /\ UNCHANGED loopVars
       [] OTHER -> UNCHANGED <<pc2, loopVars>>

startListening(thread) ==
  /\ start(thread)
  /\ UNCHANGED <<envVars, tasks, hold, regVars, sessVars, call>>

stopListening ==
  /\ listening' = FALSE
  /\ condition' = TRUE
  /\ UNCHANGED <<pc2, envVars, loopVars, tasks, hold, regVars, sessVars, call>>

\* while not self._condition.is_set(): ListenTime = ...; if len(HasRead) > cap: clear
LoopCheck ==
  /\ pc = "top"
  /\ is_set \/ nfetch < MaxFetch
  /\ IF is_set
     THEN /\ pc' = "done"
          /\ tasks' = EndOfLoop(tasks)
          /\ UNCHANGED <<ListenTime, HasRead, nclear>>
     ELSE /\ pc' = "body"
          /\ ListenTime' = ListenTimeAt(now)
          /\ IF ClearNeeded(HasRead)
             THEN HasRead' = {} /\ nclear' = nclear + 1
             ELSE UNCHANGED <<HasRead, nclear>>
          /\ UNCHANGED tasks
  /\ UNCHANGED <<envVars, flagVars, mode, messages, groupmsg, idx, run, nfetch,
                 hold, regVars, sessVars, call>>

\* messages = await self.get_last_msgs(): the request goes out
StartFetch ==
  /\ pc = "body"
  /\ pc' = "fetching"
  /\ nfetch' = nfetch + 1
  /\ UNCHANGED <<envVars, flagVars, mode, ListenTime, HasRead, messages, groupmsg,
                 idx, run, nclear, tasks, hold, regVars, sessVars, call>>

\* get_last_msgs returns the snapshot: groupmsg = messages.groupMsgs,
\* messages = messages.msgs, and the for loop begins
FetchReturn ==
  /\ pc = "fetching"
  /\ hold = 0
  /\ \E data \in Responses : get_last_msgs(data) = Return(JMap("snapshot"))
  /\ messages' = srvMsgs
  /\ groupmsg' = srvGroup
  /\ idx' = 1
  /\ pc' = IF Len(Snapshot(srvMsgs, srvGroup)) = 0 THEN "sleeping" ELSE "scanning"
  /\ UNCHANGED <<envVars, flagVars, mode, ListenTime, HasRead, run, nfetch, nclear,
                 tasks, hold, regVars, sessVars, call>>

\* get_last_msgs raises ZaloAPIException: nothing in _listen catches it
FetchFail ==
  /\ pc = "fetching"
  /\ hold = 0
  /\ \E data \in Responses : get_last_msgs(data).kind = "raise"
  /\ pc' = "crashed"
  /\ tasks' = EndOfLoop(tasks)
  /\ UNCHANGED <<envVars, flagVars, mode, ListenTime, HasRead, messages, groupmsg,
                 idx, run, nfetch, nclear, hold, regVars, sessVars, call>>

\* one iteration of `for message in messages + groupmsg`; after the last
\* one the coroutine reaches await asyncio.sleep(delay)
ScanStep ==
  /\ pc = "scanning"
  /\ LET all == Snapshot(messages, groupmsg)
         message == all[idx]
     IN /\ HasRead' = Seen(message, ListenTime, HasRead)
        /\ IF ShouldDispatch(message, ListenTime, HasRead)
           THEN tasks' = Append(tasks,
                      Task(message, IF InList(message, messages) THEN "USER" ELSE "GROUP"))
           ELSE UNCHANGED tasks
        /\ IF idx < Len(all)
           THEN idx' = idx + 1 /\ UNCHANGED <<pc, messages, groupmsg>>
           ELSE idx' = 0 /\ pc' = "sleeping" /\ messages' = << >> /\ groupmsg' = << >>
  /\ UNCHANGED <<envVars, flagVars, mode, ListenTime, run, nfetch, nclear, hold,
                 regVars, sessVars, call>>

\* await asyncio.sleep(delay) is over
Wake ==
  /\ pc = "sleeping"
  /\ hold = 0
  /\ pc' = "top"
  /\ UNCHANGED <<envVars, flagVars, mode, ListenTime, HasRead, messages, groupmsg,
                 idx, run, nfetch, nclear, tasks, hold, regVars, sessVars, call>>

\* ------------------------------------------------ a second _listen
\* The same coroutine, run by asyncio.run on the caller's thread while the
\* first runs in the pool: its steps on an empty snapshot (no item to scan).
Second_LoopCheck ==
  /\ pc2 = "top"
  /\ is_set \/ nfetch < MaxFetch
  /\ pc2' = IF is_set THEN "done" ELSE "body"
  /\ UNCHANGED <<envVars, condition, listening, loopVars, tasks, hold, regVars, sessVars, call>>

Second_StartFetch ==
  /\ pc2 = "body"
  /\ pc2' = "fetching"
  /\ nfetch' = nfetch + 1
  /\ UNCHANGED <<envVars, condition, listening, mode, pc, ListenTime, HasRead,
                 messages, groupmsg, idx, run, nclear, tasks, hold, regVars, sessVars, call>>

Second_FetchReturn ==
  /\ pc2 = "fetching"
  /\ \E data \in Responses : get_last_msgs(data) = Return(JMap("snapshot"))
  /\ Len(Snapshot(srvMsgs, srvGroup)) = 0
  /\ pc2' = "sleeping"
  /\ UNCHANGED <<envVars, condition, listening, loopVars, tasks, hold, regVars, sessVars, call>>

Second_FetchFail ==
  /\ pc2 = "fetching"
  /\ \E data \in Responses : get_last_msgs(data).kind = "raise"
  /\ pc2' = "crashed"
  /\ UNCHANGED <<envVars, condition, listening, loopVars, tasks, hold, regVars, sessVars, call>>

Second_Wake ==
  /\ pc2 = "sleeping"
  /\ pc2' = "top"
  /\ UNCHANGED <<envVars, condition, listening, loopVars, tasks, hold, regVars, sessVars, call>>

\* ------------------------------------------------------- handler tasks
\* The event loop runs a task only while _listen is suspended at an await
\* of the loop the task was created on, and one task at a time.
CanRun_UntilFailure(i) ==
  /\ i \in 1..Len(tasks)
  /\ pc \in Yielded
  /\ hold = 0
  /\ tasks[i].mode = mode
  /\ \A j \in 1..Len(tasks) : tasks[j].st # "failed"
CanRun(i) ==
  /\ i \in 1..Len(tasks)
  /\ pc \in Yielded
  /\ hold = 0
  /\ tasks[i].mode = mode

\* the handler called at step k has returned: the wrapper goes on
Advance(t) ==
  IF t.k >= Len(add_register_handler(t.content))
  THEN [t EXCEPT !.st = "finished", !.k = t.k + 1]
  ELSE [t EXCEPT !.st = "ready", !.k = t.k + 1]

\* the wrapper takes its next step: it calls the next handler, which returns,
\* raises, suspends or keeps the loop busy; or the command lookup raises
TaskStep(i, outcome) ==
  /\ CanRun(i)
  /\ tasks[i].st \in {"pending", "ready"}
  /\ LET t == tasks[i]
         step == add_register_handler(t.content)[t.k]
     IN IF step.op = "keyerror"
        THEN /\ outcome = "raise"
             /\ tasks' = [tasks EXCEPT ![i].st = "failed"]
             /\ hold' = 0
        ELSE /\ outcome \in Outcomes
             /\ LET t1 == [t EXCEPT !.inv = Append(t.inv, step)] IN
                  tasks' = [tasks EXCEPT ![i] =
                     CASE outcome = "return" -> Advance(t1)
                       [] outcome = "raise"  -> [t1 EXCEPT !.st = "failed"]
                       [] outcome = "await"  -> [t1 EXCEPT !.st = "awaiting"]
                       [] OTHER              -> [t1 EXCEPT !.st = "blocking"]]
             /\ hold' = IF outcome = "block" THEN i ELSE 0
  /\ UNCHANGED <<envVars, flagVars, loopVars, regVars, sessVars, call>>

\* what a suspended handler awaited is ready: the handler returns
TaskResume(i) ==
  /\ CanRun(i)
  /\ tasks[i].st = "awaiting"
  /\ tasks' = [tasks EXCEPT ![i] = Advance(tasks[i])]
  /\ UNCHANGED <<envVars, flagVars, loopVars, hold, regVars, sessVars, call>>

\* the non-yielding section of a handler ends: the handler returns
TaskUnblock(i) ==
  /\ i \in 1..Len(tasks)
  /\ hold = i
  /\ tasks' = [tasks EXCEPT ![i] = Advance(tasks[i])]
  /\ hold' = 0
  /\ UNCHANGED <<envVars, flagVars, loopVars, regVars, sessVars, call>>

\* ---------------------------------------------------------- environment
\* The loop reads the clock at the top of an iteration and the service's
\* lists when a fetch returns; the clock is let advance between iterations
\* and the lists change while a fetch is in flight.
Tick ==
  /\ pc \in {"sleeping", "done", "crashed"}
  /\ \E k \in 1..Len(Times) - 1 : now = Times[k] /\ now' = Times[k + 1]
  /\ UNCHANGED <<srvMsgs, srvGroup, flagVars, loopVars, tasks, hold, regVars, sessVars, call>>

\* a new message enters the direct list, the group list, or both
SrvSend(m, age, where) ==
  /\ pc = "fetching"
  /\ \A j \in 1..Len(srvMsgs \o srvGroup) : (srvMsgs \o srvGroup)[j].msgId # m
  /\ where \in {"direct", "both"} => Len(srvMsgs) < MaxSnap
  /\ where \in {"group", "both"} => Len(srvGroup) < MaxSnap
  /\ srvMsgs' = IF where \in {"direct", "both"}
                THEN Append(srvMsgs, Message(m, now * 1000 - age)) ELSE srvMsgs
  /\ srvGroup' = IF where \in {"group", "both"}
                 THEN Append(srvGroup, Message(m, now * 1000 - age)) ELSE srvGroup
  /\ UNCHANGED <<now, flagVars, loopVars, tasks, hold, regVars, sessVars, call>>

\* a registration made at setup time, before the first startListening
Register(func, message, commands) ==
  /\ pc = "idle"
  /\ nreg < MaxReg
  /\ nreg' = nreg + 1
  /\ register_handler(func, message, commands)
  /\ UNCHANGED <<envVars, flagVars, loopVars, tasks, hold, prefix, call, sessVars>>

\* ---------------------------------------------------------- session state
\* The client's session: the fields of self._state (cookies, secret_key,
\* user_id, user_imei), the attributes self.uid and self._imei, and the log
\* of what the client did, in order (hooks fired, credential exchanges,
\* requests handed to self._get / self._post).
NoValue == "None"                  \* Python's None
Unset == "unset"                   \* an attribute never assigned: reading it raises
BoundMethod == "method"            \* self.uid before any assignment: the method uid()

Phones == {"p1", "p2"}
Passwords == {"pw", ""}
Imeis == {"d1", "d2"}
UserOf(phone) == IF phone = "p1" THEN "u1" ELSE "u2"
KeyOf(phone) == IF phone = "p1" THEN "k1" ELSE "k2"
SecretKeys == {"k1", "k2", "bad"}  \* "bad": not a key of the right format

\* the session_cookies argument: None, a value that is not a dict, a dict
\* without the required fields ({"a": 1}), or the cookies of a user
Cookie(kind, fields, user) == [kind |-> kind, fields |-> fields, user |-> user]
NoCookies == Cookie("None", "none", NoValue)
CookieOf(u) == Cookie("dict", "full", u)
CookieArgs == {NoCookies, Cookie("str", "none", NoValue), Cookie("dict", "a", NoValue),
               CookieOf("u1"), CookieOf("u2")}

Ret(v) == [kind |-> "return", value |-> v]
Exc(e) == [kind |-> "raise", value |-> e]
Out(c, r) == [c |-> c, r |-> r]

\* an entry of the log.  A request carries the error_code of its response
\* and whether cookie jar, secret key and device id were all present when
\* it was issued.
Event(ev, name, code, ready) == [ev |-> ev, name |-> name, code |-> code, ready |-> ready]
Hook(name) == Event("hook", name, 0, TRUE)
Exchange(phone, ok) == Event("exchange", phone, IF ok THEN 0 ELSE 1, TRUE)
Ready(c) == c.cookies.kind = "dict" /\ c.secret_key # NoValue /\ c.imei \notin {Unset, NoValue}
Request(c, name, code) == Event("request", name, code, Ready(c))
Logged(c, e) == [c EXCEPT !.log = Append(@, e)]

\* _state.State() and the client attributes after __init__'s assignments
NewClient ==
  [cookies |-> NoCookies, secret_key |-> NoValue, user_id |-> NoValue,
   user_imei |-> NoValue, uid |-> BoundMethod, imei |-> Unset, log |-> << >>,
   waiting |-> FALSE]

\* _state.is_logged_in(): the cookie jar and the user id are present
state_is_logged_in(c) == c.cookies # NoCookies /\ c.user_id # NoValue

\* _state.set_cookies(cookies): validates the structure, raises on a mapping
\* without the required fields, else fills the jar and derives the user id
state_set_cookies(c, cookies) ==
  IF cookies.kind = "dict" /\ cookies.fields = "full"
  THEN [ok |-> TRUE, c |-> [c EXCEPT !.cookies = cookies, !.user_id = cookies.user]]
  ELSE [ok |-> FALSE, c |-> c]

\* _state.set_secret_key(key): raises on a key of the wrong format, without
\* changing anything
state_set_secret_key(c, key) ==
  IF key = "bad" THEN [ok |-> FALSE, c |-> c]
  ELSE [ok |-> TRUE, c |-> [c EXCEPT !.secret_key = key]]

\* _state.login(phone, password, imei): the credential exchange; on success
\* it fills cookies, user id, device id and secret key
state_login(c, phone, password, imei) ==
  [c EXCEPT !.cookies = CookieOf(UserOf(phone)), !.secret_key = KeyOf(phone),
            !.user_id = UserOf(phone), !.user_imei = imei]

is_logged_in(c) == state_is_logged_in(c)

\* set_session(session_cookies)
set_session_Unvalidated(c, session_cookies) ==
  IF session_cookies.kind # "dict" THEN Out(c, Ret("False"))
  ELSE Out([c EXCEPT !.cookies = session_cookies, !.user_id = session_cookies.user,
                     !.uid = session_cookies.user], Ret("True"))
set_session(c, session_cookies) ==
  IF session_cookies.kind # "dict" THEN Out(c, Ret("False"))
  ELSE LET s == state_set_cookies(c, session_cookies) IN
       IF s.ok THEN Out([s.c EXCEPT !.uid = s.c.user_id], Ret("True"))
       ELSE Out(s.c, Ret("False"))

\* set_secret_key(secret_key)
set_secret_key_Unchecked(c, secret_key) ==
  Out([c EXCEPT !.secret_key = secret_key],
      Ret(IF state_set_secret_key(c, secret_key).ok THEN "True" ELSE "False"))
set_secret_key(c, secret_key) ==
  LET s == state_set_secret_key(c, secret_key) IN
  Out(s.c, Ret(IF s.ok THEN "True" ELSE "False"))

\* what the profile request of login gives: a profile with its userId, a
\* profile without one, or a failure (the call raises)
Profiles == {"userId", "no userId", "raises"}

\* login, after the exchange: try: self._imei = ...; self.uid = (await
\* self.fetch_account_info()).profile.get("userId", self._state.user_id)
\* except: self._imei = None; self.uid = self._state.user_id
login_attrs_KeepUid(c, profile) ==
  LET c1 == [c EXCEPT !.imei = c.user_imei]
      c2 == Logged(c1, Request(c1, "fetch_account_info", IF profile = "raises" THEN 112 ELSE 0))
  IN IF profile = "raises" THEN [c2 EXCEPT !.imei = NoValue]
     ELSE [c2 EXCEPT !.uid = IF c.uid = BoundMethod THEN c2.user_id ELSE c.uid]
login_attrs(c, profile) ==
  LET c1 == [c EXCEPT !.imei = c.user_imei]
      c2 == Logged(c1, Request(c1, "fetch_account_info", IF profile = "raises" THEN 112 ELSE 0))
  IN IF profile = "raises" THEN [c2 EXCEPT !.imei = NoValue, !.uid = c2.user_id]
     ELSE [c2 EXCEPT !.uid = c2.user_id]

\* login(phone, password, imei): exchange tells whether _state.login succeeds
login_HookFirst(c, phone, password, imei, exchange, profile) ==
  LET c1 == Logged(c, Hook("on_logging_in")) IN
  IF phone = "" \/ password = "" THEN Out(c1, Exc("ZaloUserError"))
  ELSE IF ~exchange
       THEN Out(Logged(c1, Exchange(phone, FALSE)), Exc("ZaloLoginError"))
       ELSE LET c2 == Logged(state_login(c1, phone, password, imei), Exchange(phone, TRUE))
            IN Out(Logged(login_attrs(c2, profile), Hook("on_logged_in")), Ret(NoValue))
login(c, phone, password, imei, exchange, profile) ==
  IF phone = "" \/ password = "" THEN Out(c, Exc("ZaloUserError"))
  ELSE LET c1 == Logged(c, Hook("on_logging_in")) IN
       IF ~exchange
       THEN Out(Logged(c1, Exchange(phone, FALSE)), Exc("ZaloLoginError"))
       ELSE LET c2 == Logged(state_login(c1, phone, password, imei), Exchange(phone, TRUE))
            IN Out(Logged(login_attrs(c2, profile), Hook("on_logged_in")), Ret(NoValue))

\* ZaloAPI.__init__, the auto_login block
auto_login_block_ResultIgnored(c, auto_login, session_cookies, phone, password, imei, exchange, profile) ==
  IF ~auto_login THEN Out(c, Ret(NoValue))
  ELSE IF session_cookies = NoCookies
       THEN login(c, phone, password, imei, exchange, profile)
       ELSE Out(set_session(c, session_cookies).c, Ret(NoValue))
auto_login_block(c, auto_login, session_cookies, phone, password, imei, exchange, profile) ==
  IF ~auto_login THEN Out(c, Ret(NoValue))
  ELSE IF session_cookies = NoCookies
       THEN login(c, phone, password, imei, exchange, profile)
       ELSE LET s == set_session(c, session_cookies) IN
            IF s.r.value = "False" \/ ~is_logged_in(s.c)
            THEN login(s.c, phone, password, imei, exchange, profile)
            ELSE Out(s.c, Ret(NoValue))

\* ------------------------------------------------- calls with a thread_type
ThreadTypes == {"USER", "GROUP", "other"}
ApiMethods == {"fetch_all_groups", "send_message", "mark_as_read", "mark_as_delivered"}
ApiResponses == {Envelope(code, d) : code \in {0, 112},
                                     d \in {JNull, Enc(Envelope(0, JMap("snapshot")))}}

\* the request goes out and the response is unwrapped:
\* results = data.get("data") if data.get("error_code") == 0 else None
Transact(c, name, resp, hook) ==
  LET c1 == Logged(c, Request(c, name, resp.error_code))
      results == IF resp.error_code = 0 THEN resp.data ELSE JNull
  IN IF Truthy(results)
     THEN Out(IF hook = NoValue THEN c1 ELSE Logged(c1, Hook(hook)), Ret("result"))
     ELSE Out(c1, Exc("ZaloAPIException"))

fetch_all_groups(c, resp) == Transact(c, "fetch_all_groups", resp, NoValue)

send_message_request(c, thread_type, resp) ==
  IF c.imei = Unset THEN Out(c, Exc("AttributeError"))
  ELSE IF thread_type \notin {"USER", "GROUP"} THEN Out(c, Exc("ZaloUserError"))
  ELSE Transact(c, "send_message", resp, NoValue)

mark_as_read(c, thread_type, resp) ==
  IF c.imei = Unset THEN Out(c, Exc("AttributeError"))
  ELSE IF thread_type \notin {"USER", "GROUP"} THEN Out(c, Exc("ZaloUserError"))
  ELSE Transact(c, "mark_as_read", resp, "on_marked_seen")

\* if thread_type == ThreadType.USER: ... else: (the group branch, which
\* reads self._imei)
mark_as_delivered(c, thread_type, resp) ==
  IF thread_type # "USER" /\ c.imei = Unset THEN Out(c, Exc("AttributeError"))
  ELSE Transact(c, "mark_as_delivered", resp, "on_message_delivered")

ApiCall(c, method, thread_type, resp) ==
  CASE method = "fetch_all_groups"  -> fetch_all_groups(c, resp)
    [] method = "send_message"      -> send_message_request(c, thread_type, resp)
    [] method = "mark_as_read"      -> mark_as_read(c, thread_type, resp)
    [] OTHER                        -> mark_as_delivered(c, thread_type, resp)

\* ------------------------------------------------- the client's API, called
\* one call at a time by the program that owns the client
Args(cookies, key, phone, password, imei, method, thread_type) ==
  [cookies |-> cookies, key |-> key, phone |-> phone, password |-> password,
   imei |-> imei, method |-> method, thread_type |-> thread_type]
NoArgs == Args(NoCookies, NoValue, NoValue, NoValue, NoValue, NoValue, NoValue)
NoRet == [op |-> "none", arg |-> NoArgs, kind |-> "return", value |-> NoValue, n |-> 0]

Done(op, arg, out) ==
  /\ client' = out.c
  /\ ret' = [op |-> op, arg |-> arg, kind |-> out.r.kind, value |-> out.r.value, n |-> ret.n + 1]
  /\ UNCHANGED <<envVars, flagVars, loopVars, tasks, hold, regVars, call>>

\* client = ZaloAPI(phone, password, imei, session_cookies, auto_login=...)
Construct(auto_login, session_cookies, phone, password, imei, exchange, profile) ==
  /\ ret.op = "none"
  /\ Done(IF auto_login THEN "__init__" ELSE "__init__(auto_login=False)",
          Args(session_cookies, NoValue, phone, password, imei, NoValue, NoValue),
          auto_login_block(client, auto_login, session_cookies, phone, password, imei,
                           exchange, profile))

SetSession(session_cookies) ==
  /\ ret.op # "none" /\ ret.n < MaxOps
  /\ Done("set_session", [NoArgs EXCEPT !.cookies = session_cookies],
          set_session(client, session_cookies))

SetSecretKey(secret_key) ==
  /\ ret.op # "none" /\ ret.n < MaxOps
  /\ Done("set_secret_key", [NoArgs EXCEPT !.key = secret_key],
          set_secret_key(client, secret_key))

Login(phone, password, imei, exchange, profile) ==
  /\ ret.op # "none" /\ ret.n < MaxOps
  /\ Done("login", Args(NoCookies, NoValue, phone, password, imei, NoValue, NoValue),
          login(client, phone, password, imei, exchange, profile))

Api(method, thread_type, resp) ==
  /\ ret.op # "none" /\ ret.n < MaxOps
  /\ method = "fetch_all_groups" => thread_type = "USER"
  /\ Done(method, [NoArgs EXCEPT !.method = method, !.thread_type = thread_type],
          ApiCall(client, method, thread_type, resp))

\* ------------------------------------------------------------- listen
\* listen(delay, test, thread), called by the main program while its thread
\* is free: asyncio.run(self.on_listening()), then startListening; with
\* thread=True the caller then spins on `while self._listening: pass`
\* (client.waiting)
MainThreadFree ==
  /\ ~(mode = "blocking" /\ pc \in Running)
  /\ pc2 \notin Running
  /\ ~client.waiting

listen(thread) ==
  /\ ret.op # "none"
  /\ MainThreadFree
  /\ Len(client.log) < MaxOps + 3
  /\ client' = [Logged(client, Hook("on_listening")) EXCEPT !.waiting = thread]
  /\ start(thread)
  /\ UNCHANGED <<envVars, tasks, hold, regVars, ret, call>>

\* the spin of listen(thread=True) ends: self.stopListening()
listen_return ==
  /\ client.waiting /\ ~listening
  /\ client' = [client EXCEPT !.waiting = FALSE]
  /\ listening' = FALSE
  /\ condition' = TRUE
  /\ UNCHANGED <<pc2, envVars, loopVars, tasks, hold, regVars, ret, call>>

\* ------------------------------------------------------------ the codec
\* a parameter map is encoded for a request, and the payload decoded again
ParamMaps == {JMap("params_a"), JMap("params_b")}

EncodeStep(params) ==
  /\ ret.op # "none"
  /\ call.st \in {"none", "decoded"}
  /\ call' = [method |-> "_encode", st |-> "encoded",
              resp |-> Envelope(0, _encode(params)), result |-> Return(params)]
  /\ UNCHANGED <<envVars, flagVars, loopVars, tasks, hold, regVars, sessVars>>

DecodeStep ==
  /\ call.st = "encoded"
  /\ call' = [call EXCEPT !.st = "decoded", !.result = Return(_decode(call.resp.data))]
  /\ UNCHANGED <<envVars, flagVars, loopVars, tasks, hold, regVars, sessVars>>

\* ------------------------------------------------------- specifications
\* ZaloAPI.__init__ (auto_login aside): empty registry, stop signal clear
InitWith(p) ==
  /\ now = Times[1]
  /\ srvMsgs = << >>
  /\ srvGroup = << >>
  /\ condition = FALSE
  /\ listening = FALSE
  /\ pc2 = "none"
  /\ mode = "none"
  /\ pc = "idle"
  /\ ListenTime = 0
  /\ HasRead = {}
  /\ messages = << >>
  /\ groupmsg = << >>
  /\ idx = 0
  /\ run = 0
  /\ nfetch = 0
  /\ nclear = 0
  /\ tasks = << >>
  /\ hold = 0
  /\ prefix = p
  /\ register_commands = EmptyDict
  /\ register_messages = << >>
  /\ nreg = 0
  /\ call = NoCall
  /\ client = NewClient
  /\ ret = NoRet

\* --- the poll loop against the service and the clock.  _listen is the same
\* coroutine in both modes of startListening; here it is started in blocking
\* mode and the handler tasks it creates are not followed (SpecTasks does).
Init == InitWith("")

Next ==
  \/ startListening(FALSE)
  \/ stopListening
  \/ LoopCheck
  \/ StartFetch
  \/ FetchReturn
  \/ FetchFail
  \/ ScanStep
  \/ Wake
  \/ Tick
  \/ \E m \in Ids : \E age \in Ages(m), w \in Places(m) : SrvSend(m, age, w)

Spec == Init /\ [][Next]_vars

\* the event loop keeps running the coroutine: each step of _listen that is
\* possible is eventually taken (the service answers, the sleep ends)
FairSpec ==
  /\ Spec
  /\ WF_vars(LoopCheck) /\ WF_vars(StartFetch) /\ WF_vars(FetchReturn \/ FetchFail)
  /\ WF_vars(ScanStep) /\ WF_vars(Wake)

\* --- the handler tasks: _listen in both modes of startListening, with the
\* tasks it creates run by the event loop; every message is recent
FreshAge(m) == CHOOSE a \in Ages(m) : \A b \in Ages(m) : a <= b

NextTasks ==
  \/ \E th \in BOOLEAN : (pc \in Running /\ mode = "thread" => th) /\ startListening(th)
  \/ stopListening
  \/ LoopCheck
  \/ StartFetch
  \/ FetchReturn
  \/ FetchFail
  \/ ScanStep
  \/ Wake
  \/ \E m \in {"m1", "m2"} : SrvSend(m, FreshAge(m), "direct")
  \/ \E i \in 1..Len(tasks), o \in Outcomes : TaskStep(i, o)
  \/ \E i \in 1..Len(tasks) : TaskResume(i)
  \/ \E i \in 1..Len(tasks) : TaskUnblock(i)

SpecTasks == Init /\ [][NextTasks]_vars

\* the event loop keeps running _listen; nothing obliges a handler to finish
FairTasks ==
  /\ SpecTasks
  /\ WF_vars(LoopCheck) /\ WF_vars(StartFetch) /\ WF_vars(FetchReturn \/ FetchFail)
  /\ WF_vars(ScanStep) /\ WF_vars(Wake)

\* --- the dispatch of one event to the registered handlers: registrations at
\* setup, one message, _listen in blocking mode
InitDispatch == \E p \in Prefixes : InitWith(p)

DispatchRegs ==
  { <<"h1", NoArg, CmdArg("str", <<"info">>)>>,
    <<"h1", "any", CmdArg("str", <<"5">>)>>,
    <<"h2", "slash", CmdArg("none", <<>>)>>,
    <<"h2", NoArg, CmdArg("list", <<"info", "hi">>)>> }

NextDispatch ==
  \/ \E r \in DispatchRegs : Register(r[1], r[2], r[3])
  \/ startListening(FALSE)
  \/ stopListening
  \/ LoopCheck
  \/ StartFetch
  \/ FetchReturn
  \/ ScanStep
  \/ Wake
  \/ \E m \in Ids : srvMsgs = << >> /\ SrvSend(m, FreshAge(m), "direct")
  \/ \E i \in 1..Len(tasks), o \in {"return", "raise"} : TaskStep(i, o)

SpecDispatch == InitDispatch /\ [][NextDispatch]_vars

\* --- uninterrupted polling: the stop signal is never given and every fetch
\* succeeds; two consecutive iterations are less than LookBack seconds apart
\* (the step of the clock)
NextPoll ==
  \/ startListening(FALSE)
  \/ LoopCheck
  \/ StartFetch
  \/ FetchReturn
  \/ ScanStep
  \/ Wake
  \/ Tick
  \/ \E m \in Ids : \E age \in Ages(m), w \in Places(m) : SrvSend(m, age, w)

SpecPoll == Init /\ [][NextPoll]_vars

\* the event loop keeps running the coroutine
FairPoll ==
  /\ SpecPoll
  /\ WF_vars(LoopCheck) /\ WF_vars(StartFetch) /\ WF_vars(FetchReturn)
  /\ WF_vars(ScanStep) /\ WF_vars(Wake)

\* --- the poll loop and the handlers together: fresh, stale and already
\* seen items, and the handler tasks run by the event loop
NextSeen ==
  \/ startListening(FALSE)
  \/ stopListening
  \/ LoopCheck
  \/ StartFetch
  \/ FetchReturn
  \/ ScanStep
  \/ Wake
  \/ Tick
  \/ \E m \in {"m1", "m2"} : \E age \in Ages(m) : SrvSend(m, age, "direct")
  \/ \E i \in 1..Len(tasks), o \in {"return", "raise"} : TaskStep(i, o)

SpecSeen == Init /\ [][NextSeen]_vars

\* --- the handler chain of one event, with handlers that may suspend:
\* registrations at setup, one message, _listen in blocking mode
NextChain ==
  \/ \E r \in DispatchRegs : Register(r[1], r[2], r[3])
  \/ startListening(FALSE)
  \/ LoopCheck
  \/ StartFetch
  \/ FetchReturn
  \/ ScanStep
  \/ Wake
  \/ \E m \in Ids : srvMsgs = << >> /\ SrvSend(m, FreshAge(m), "direct")
  \/ \E i \in 1..Len(tasks), o \in {"return", "raise", "await"} : TaskStep(i, o)
  \/ \E i \in 1..Len(tasks) : TaskResume(i)

SpecChain == InitDispatch /\ [][NextChain]_vars

\* --- starting and stopping: startListening in both modes, from the main
\* thread or from a handler, against a service with no message
NextStart ==
  \/ \E th \in BOOLEAN : startListening(th)
  \/ stopListening
  \/ LoopCheck
  \/ StartFetch
  \/ FetchReturn
  \/ FetchFail
  \/ Wake
  \/ Second_LoopCheck
  \/ Second_StartFetch
  \/ Second_FetchReturn
  \/ Second_FetchFail
  \/ Second_Wake

SpecStart == Init /\ [][NextStart]_vars

\* the event loops keep running their coroutines
FairStart ==
  /\ SpecStart
  /\ WF_vars(LoopCheck) /\ WF_vars(StartFetch) /\ WF_vars(FetchReturn \/ FetchFail)
  /\ WF_vars(Wake)

\* --- the session: construction on either path, then calls of the API
NextSession ==
  \/ \E al \in BOOLEAN, ck \in CookieArgs, ph \in Phones, pw \in Passwords, im \in Imeis,
        ex \in BOOLEAN, pr \in Profiles : Construct(al, ck, ph, pw, im, ex, pr)
  \/ \E ck \in CookieArgs : SetSession(ck)
  \/ \E k \in SecretKeys : SetSecretKey(k)
  \/ \E ph \in Phones, pw \in Passwords, im \in Imeis, ex \in BOOLEAN, pr \in Profiles :
        Login(ph, pw, im, ex, pr)
  \/ \E pw \in Passwords : Login("", pw, "d1", TRUE, "userId")
  \/ \E m \in ApiMethods, tt \in ThreadTypes, resp \in ApiResponses : Api(m, tt, resp)

SpecSession == Init /\ [][NextSession]_vars

\* --- the hooks: a client that logs in at construction, marks messages,
\* then polls a service with no message, started by listen or startListening
NextHooks ==
  \/ \E ex \in BOOLEAN : Construct(TRUE, NoCookies, "p1", "pw", "d1", ex, "userId")
  \/ \E m \in {"mark_as_read", "mark_as_delivered"}, resp \in ApiResponses :
        pc = "idle" /\ Api(m, "USER", resp)
  \/ \E th \in BOOLEAN : listen(th)
  \/ listen_return
  \/ \E th \in BOOLEAN : (pc \in Running /\ mode = "thread" => th) /\ startListening(th)
  \/ stopListening
  \/ LoopCheck
  \/ StartFetch
  \/ FetchReturn
  \/ FetchFail
  \/ Wake

SpecHooks == Init /\ [][NextHooks]_vars

\* --- the codec under a session whose secret key may be loaded anew
NextCodec ==
  \/ \E al \in BOOLEAN, ph \in Phones :
        Construct(al, NoCookies, ph, "pw", "d1", TRUE, "userId")
  \/ \E k \in SecretKeys : SetSecretKey(k)
  \/ \E params \in ParamMaps : EncodeStep(params)
  \/ DecodeStep

SpecCodec == Init /\ [][NextCodec]_vars

\* --- the gateway-backed calls on every response of the model
NextGateway ==
  \/ \E method \in Methods, data \in Responses : Respond(method, data)
  \/ Complete

SpecGateway == Init /\ [][NextGateway]_vars

\* ----------------------------------------------------------------- claims
AllItems == srvMsgs \o srvGroup
TasksOf(m, r, e) == {i \in 1..Len(tasks) : tasks[i].id = m /\ tasks[i].run = r /\ tasks[i].epoch = e}

\* C1: within one _listen and with no clear of HasRead in between, a message
\* id is dispatched at most once over all fetch cycles, and once a cycle has
\* scanned a snapshot every item of it inside the look-back window has been
\* dispatched exactly once.
C1_DedupAcrossCycles ==
  /\ \A m \in Ids : \A r \in 1..MaxFetch + 1, e \in 0..MaxFetch + 1 :
        Cardinality(TasksOf(m, r, e)) <= 1
  /\ pc = "sleeping" =>
        \A j \in 1..Len(AllItems) :
           AllItems[j].ts >= ListenTime =>
              Cardinality(TasksOf(AllItems[j].msgId, run, nclear)) = 1

\* a second cycle has scanned a snapshot that still holds, inside the window,
\* a message dispatched by an earlier cycle of the same _listen
C1_Witness ==
  /\ pc = "sleeping"
  /\ \E i \in 1..Len(tasks), j \in 1..Len(AllItems) :
        /\ tasks[i].id = AllItems[j].msgId
        /\ tasks[i].run = run /\ tasks[i].epoch = nclear
        /\ tasks[i].fetch < nfetch
        /\ AllItems[j].ts >= ListenTime

\* C2: a step of the for loop dispatches the item it looks at exactly when
\* the item's timestamp is at or after (now - 10 s) and its id is not in
\* HasRead; an item it does not dispatch is not added to HasRead.
C2_WindowFilter ==
  [][ (pc = "scanning" /\ idx' # idx) =>
        LET message == (messages \o groupmsg)[idx]
            fresh == message.ts >= now * 1000 - 10000
            unseen == message.msgId \notin HasRead
        IN IF fresh /\ unseen
           THEN /\ Len(tasks') = Len(tasks) + 1
                /\ tasks'[Len(tasks')].id = message.msgId
                /\ HasRead' = HasRead \cup {message.msgId}
           ELSE tasks' = tasks /\ HasRead' = HasRead ]_vars

\* the scenario: m1 (now - 3 s) was dispatched by the cycle just scanned, m2
\* (now - 20 s) of the same snapshot was not and is not in HasRead
C2_Witness ==
  /\ pc = "sleeping"
  /\ \E i \in 1..Len(tasks) :
        tasks[i].id = "m1" /\ tasks[i].fetch = nfetch /\ tasks[i].ts = now * 1000 - 3000
  /\ InList(Message("m2", now * 1000 - 20000), AllItems)
  /\ "m2" \notin HasRead
  /\ \A i \in 1..Len(tasks) : tasks[i].id # "m2"

\* C3: once stopListening has set the signal, and for as long as it stays
\* set, the loop only finishes the iteration it is in: it starts no fetch
\* other than the one of an iteration entered before the signal, it goes from
\* its sleep to the loop test and from there to Stopped and stays there; and
\* it does get there (unless startListening clears the signal first).
C3_StopSemantics ==
  /\ [][ (condition /\ condition') =>
           /\ pc = "top" => pc' \in {"top", "done"}
           /\ pc = "sleeping" => pc' \in {"sleeping", "top"}
           /\ pc \in {"done", "crashed"} => pc' = pc
           /\ pc # "body" => nfetch' = nfetch ]_vars
  /\ [](condition => <>(pc \notin Running \/ ~condition))

\* the loop has reached Stopped on a signal given while a fetch was in flight
C3_Witness ==
  /\ pc = "done"
  /\ condition
  /\ nfetch >= 1

\* C4: a failing fetch leaves the poll loop running.
C4_FetchFailureNotFatal ==
  [][ pc = "fetching" => pc' \in Running ]_vars

\* number of messages dispatched by the r-th _listen
DispatchedBy(r) == Cardinality({i \in 1..Len(tasks) : tasks[i].run = r})
CapNeverExceeded == \A r \in 1..MaxFetch + 1 : DispatchedBy(r) <= HasReadCap

\* C9: as long as no _listen has had more than the cap of ids in HasRead, no
\* message id is dispatched twice, also across stopListening / startListening.
C9_NoRedelivery ==
  CapNeverExceeded =>
     \A i, j \in 1..Len(tasks) : i # j => tasks[i].id # tasks[j].id

\* C10 as stated: an insert made while HasRead holds more than the cap of ids
\* clears the set first, so that the new id is alone in it afterwards.
C10_ClearAtInsert ==
  [][ (HasRead' # HasRead /\ HasRead' # {} /\ Cardinality(HasRead) > HasReadCap)
        => Cardinality(HasRead') = 1 ]_vars

\* C10, amended: HasRead is cleared only by the test at the top of an
\* iteration, exactly when it then holds more than the cap of ids; an insert
\* adds one id and clears nothing, so the first insert after a clear leaves
\* the new id alone while later inserts of the same iteration can take the
\* set past the cap; a new _listen starts with an empty set of its own.
C10_ClearAtTop ==
  [][ /\ (pc = "top" /\ pc' = "body") =>
           HasRead' = IF Cardinality(HasRead) > HasReadCap THEN {} ELSE HasRead
      /\ ~(HasRead \subseteq HasRead') =>
           \/ run' # run
           \/ pc = "top" /\ Cardinality(HasRead) > HasReadCap /\ HasRead' = {}
      /\ (pc = "scanning" /\ HasRead' # HasRead) =>
           /\ HasRead \subseteq HasRead'
           /\ Cardinality(HasRead') = Cardinality(HasRead) + 1
           /\ HasRead = {} => HasRead' = {tasks'[Len(tasks')].id} ]_vars

\* the set was cleared when above the cap and the insert after it left one id
C10_Witness ==
  /\ nclear >= 1
  /\ Cardinality(HasRead) = 1
  /\ tasks # << >>
  /\ tasks[Len(tasks)].epoch = nclear
  /\ HasRead = {tasks[Len(tasks)].id}

Ended == {"finished", "failed", "cancelled"}
CmdCalls(t) == {n \in 1..Len(t.inv) : t.inv[n].src = "cmd"}
MsgCalls(t, p) == {n \in 1..Len(t.inv) : t.inv[n].src = "msg" /\ t.inv[n].n = p}

\* C5: when the dispatch of an event is over, the handler registered under
\* the key equal to the event content (if any) has been invoked exactly once,
\* and every pattern handler whose predicate is true on the content has been
\* invoked as well, not only the first match.
C5_EveryMatchInvoked ==
  \A i \in 1..Len(tasks) :
     tasks[i].st \in Ended =>
        LET t == tasks[i] IN
        /\ (t.content.t = "str" /\ t.content.v \in DOMAIN register_commands) =>
              /\ Cardinality(CmdCalls(t)) = 1
              /\ \A n \in CmdCalls(t) : t.inv[n].h = register_commands[t.content.v]
        /\ \A p \in 1..Len(register_messages) :
              condition_holds(register_messages[p][2], Str(t.content)) =>
                 Cardinality(MsgCalls(t, p)) = 1

\* C6: whatever the handlers dispatched earlier do, and also if one of them
\* never completes, the sleep of the poll loop ends, so that the loop goes on
\* to its next fetch.
C6_HandlersNeverDelayLoop ==
  [](pc = "sleeping" => <>(pc # "sleeping"))

\* C7: a handler task that is unfinished when the stop signal ends polling
\* is not cancelled.
C7_TasksSurviveStop ==
  \A i \in 1..Len(tasks) : tasks[i].st # "cancelled"

\* C8: a call whose response has error_code 0 returns data that is not
\* null; a call whose response has another error_code raises
\* ZaloAPIException with that code.
C8_GatewayContract ==
  call.st = "done" =>
     IF call.resp.error_code = 0
     THEN call.result.kind = "return" /\ call.result.value # JNull
     ELSE /\ call.result.kind = "raise"
          /\ call.result.value = JStr("ZaloAPIException")
          /\ call.result.code = call.resp.error_code

\* C11: within one fetch cycle the tasks are created in the order of the for
\* loop over the direct list followed by the group list: the loop only moves
\* forward, a task created at a step is the one of the item at that step,
\* it is a USER task only within the direct list and a GROUP task only
\* within the group list, and no USER task is created after a GROUP task of
\* the same fetch.
C11_DispatchOrder ==
  [][/\ (pc = "scanning" /\ pc' = "scanning") => idx' \in {idx, idx + 1}
     /\ Len(tasks') > Len(tasks) =>
          LET t == tasks'[Len(tasks')] IN
          /\ pc = "scanning" /\ Len(tasks') = Len(tasks) + 1
          /\ pc' = "scanning" => idx' = idx + 1
          /\ t.fetch = nfetch
          /\ t.id = (messages \o groupmsg)[idx].msgId
          /\ t.thread_type = (IF idx <= Len(messages) THEN "USER" ELSE "GROUP")
          /\ t.thread_type = "USER" =>
               \A i \in 1..Len(tasks) :
                  tasks[i].fetch = nfetch => tasks[i].thread_type = "USER"]_vars

\* a cycle that dispatched a direct item and then a group item
C11_Witness ==
  \E i, j \in 1..Len(tasks) :
     /\ i < j /\ tasks[i].fetch = tasks[j].fetch
     /\ tasks[i].thread_type = "USER" /\ tasks[j].thread_type = "GROUP"

\* C12: at no time are two poll fetches of the client in flight
C12_NoOverlappingFetch == ~(pc = "fetching" /\ pc2 = "fetching")

\* C13: no request is handed to the gateway (_get / _post) unless the
\* cookie jar, the secret key and the device id are all populated, whichever
\* way the client was constructed
C13_SessionBeforeGateway ==
  \A k \in 1..Len(client.log) : client.log[k].ev = "request" => client.log[k].ready

\* the step is a call of op
Called(op) == ret'.n = ret.n + 1 /\ ret'.op = op
ProperCookies(ck) == ck.kind = "dict" /\ ck.fields = "full"
Session(c) == [c EXCEPT !.log = << >>]

\* C14: set_session(cookies) returns False when cookies is not a mapping or
\* is a mapping without the required fields, and then changes nothing: a
\* client that was not logged in is still not logged in.  When it returns
\* True the cookie jar holds the cookies and uid is the user id derived
\* from them.
C14_SetSession ==
  [][Called("set_session") =>
       LET ck == ret'.arg.cookies IN
       /\ ret'.kind = "return" /\ ret'.value \in {"True", "False"}
       /\ ~ProperCookies(ck) =>
            /\ ret'.value = "False"
            /\ client' = client
            /\ ~is_logged_in(client) => ~is_logged_in(client')
       /\ ret'.value = "True" =>
            /\ client'.cookies = ck
            /\ client'.uid = ck.user /\ client'.uid = client'.user_id
            /\ is_logged_in(client')]_vars

\* set_session({"a": 1}) on a client that is not logged in
C14_Witness ==
  /\ ret.op = "set_session" /\ ret.arg.cookies = Cookie("dict", "a", NoValue)
  /\ ret.value = "False" /\ ~is_logged_in(client)

\* C15: set_secret_key with a key of the wrong format returns False and
\* leaves the session, the stored secret key included, as it was
C15_SetSecretKeyFrame ==
  [][(Called("set_secret_key") /\ ret'.arg.key = "bad") =>
       /\ ret'.kind = "return" /\ ret'.value = "False"
       /\ client' = client]_vars

\* a wrong-format key refused on a client that holds a secret key
C15_Witness ==
  /\ ret.op = "set_secret_key" /\ ret.arg.key = "bad" /\ ret.value = "False"
  /\ client.secret_key \in {"k1", "k2"}

\* C16: a login that succeeds ends in the state a single login with the
\* same arguments (and the same answer to its profile request) ends in,
\* whatever the session held before
C16_LoginIdempotent ==
  [][(Called("login") /\ ret'.kind = "return") =>
       LET a == ret'.arg
           n == Len(client'.log)
           profile == IF client'.log[n - 1].code = 0 THEN "userId" ELSE "raises"
           single == login(NewClient, a.phone, a.password, a.imei, TRUE, profile).c
       IN /\ Session(client') = Session(single)
          /\ client'.cookies = CookieOf(UserOf(a.phone))
          /\ client'.user_id = UserOf(a.phone) /\ client'.uid = UserOf(a.phone)
          /\ client'.user_imei = a.imei /\ client'.secret_key = KeyOf(a.phone)]_vars

\* a second successful login, with another account, on a logged-in client
C16_Witness ==
  /\ ret.op = "login" /\ ret.kind = "return"
  /\ \E i, j \in 1..Len(client.log) :
        /\ i < j
        /\ client.log[i].ev = "exchange" /\ client.log[i].code = 0
        /\ client.log[j].ev = "exchange" /\ client.log[j].code = 0
        /\ client.log[i].name # client.log[j].name

\* C17: on a client that has logged in, every call that takes a thread_type
\* raises ZaloUserError for a thread_type that is neither USER nor GROUP,
\* and hands no request to the gateway
C17_InvalidThreadType ==
  [][(/\ ret'.n = ret.n + 1
      /\ ret'.arg.method \in {"send_message", "mark_as_read", "mark_as_delivered"}
      /\ ret'.arg.thread_type = "other"
      /\ client.imei # Unset) =>
       /\ ret'.kind = "raise" /\ ret'.value = "ZaloUserError"
       /\ client'.log = client.log]_vars

\* the hooks of login: on_logging_in right before the exchange, on_logged_in
\* only after an exchange that succeeded (and the profile request)
LoginHooksInOrder ==
  \A k \in 1..Len(client.log) :
     /\ client.log[k].ev = "exchange" => k > 1 /\ client.log[k - 1] = Hook("on_logging_in")
     /\ client.log[k] = Hook("on_logged_in") =>
          /\ k > 3
          /\ client.log[k - 2].ev = "exchange" /\ client.log[k - 2].code = 0

\* the hooks of the mark requests: only right after the request, answered
\* with error_code 0
MarkHooksAfterSuccess ==
  \A k \in 1..Len(client.log) :
     /\ client.log[k] = Hook("on_message_delivered") =>
          k > 1 /\ client.log[k - 1].ev = "request"
                /\ client.log[k - 1].name = "mark_as_delivered" /\ client.log[k - 1].code = 0
     /\ client.log[k] = Hook("on_marked_seen") =>
          k > 1 /\ client.log[k - 1].ev = "request"
                /\ client.log[k - 1].name = "mark_as_read" /\ client.log[k - 1].code = 0

\* on_listening has fired when the first poll fetch is issued
ListeningBeforeFetch ==
  nfetch > 0 => \E k \in 1..Len(client.log) : client.log[k] = Hook("on_listening")

\* C18: the lifecycle hooks fire at their events and in order: on_logging_in
\* before the exchange and on_logged_in only after it succeeded, on_listening
\* before the first poll fetch, on_message_delivered / on_marked_seen only
\* after their request succeeded
C18_HookOrder == LoginHooksInOrder /\ MarkHooksAfterSuccess /\ ListeningBeforeFetch

\* the command names of the model, and the removal of a prefix from a text
\* that starts with it
Commands == {"info", "5", "hi"}
StartsWith(text, p) == p = "" \/ (p = "/" /\ text \in {"/info", "/5", "/hi"})
StripPrefix(text, p) ==
  CASE p = "" -> text
    [] text = "/info" -> "info"
    [] text = "/5" -> "5"
    [] OTHER -> "hi"

\* C19: for an event whose dispatch is over, a command handler has been
\* invoked exactly when the content is a string that starts with the prefix
\* and, once the prefix is stripped, gives a registered command c; the
\* handler invoked is then the one registered for c, once
C19_PrefixStripped ==
  \A i \in 1..Len(tasks) :
     tasks[i].st \in Ended =>
        LET t == tasks[i]
            c == StripPrefix(t.content.v, prefix)
            matches == /\ t.content.t = "str"
                       /\ StartsWith(t.content.v, prefix)
                       /\ c \in Commands
                       /\ (prefix \o c) \in DOMAIN register_commands
        IN /\ matches => /\ Cardinality(CmdCalls(t)) = 1
                          /\ \A n \in CmdCalls(t) : t.inv[n].h = register_commands[prefix \o c]
           /\ ~matches => CmdCalls(t) = {}

DispatchedSinceClear ==
  {tasks[i].id : i \in {n \in 1..Len(tasks) : tasks[n].run = run /\ tasks[n].epoch = nclear}}

\* C21: HasRead is exactly the set of the ids dispatched by the current
\* _listen since its last clear (a stale or an already seen item adds
\* nothing), and a step of a handler task changes neither HasRead nor
\* ListenTime.
C21_SeenSetOwnedByLoop ==
  /\ [](HasRead = DispatchedSinceClear)
  /\ [][(Len(tasks') = Len(tasks) /\ tasks' # tasks) =>
          (HasRead' = HasRead /\ ListenTime' = ListenTime)]_vars

\* a cycle scanned a fresh item, whose handler has run, and a stale one
C21_Witness ==
  /\ pc = "sleeping"
  /\ HasRead = {"m1"}
  /\ \E i \in 1..Len(tasks) : tasks[i].id = "m1" /\ tasks[i].st \in {"finished", "failed"}
  /\ \E j \in 1..Len(srvMsgs) : srvMsgs[j].msgId = "m2" /\ srvMsgs[j].ts < ListenTime
  /\ nfetch = 2

\* what the claim's unwrapping gives for a decoded envelope
Unwrapped(dec) ==
  LET taken == IF dec.error_code = 0 THEN dec.data ELSE JErr(dec.error_code, "inner") IN
  CASE taken = JNull -> JErr(1337, "Data is None")
    [] taken.j = "str" /\ json_loads(taken.v).j = "invalid" -> JErr(1337, taken.v)
    [] taken.j = "str" -> json_loads(taken.v)
    [] OTHER -> taken

\* C22: a call of the get_last_msgs / fetch_account_info shape whose response
\* has error_code 0 returns, without raising: the data field is decoded; of
\* a decoded envelope with error_code 0 the inner data is taken, else the
\* decoded envelope itself; a null inner data becomes {error_code: 1337,
\* error_message: "Data is None"}; a string is parsed as JSON once and, if
\* it does not parse, becomes {error_code: 1337, error_message: the string}
C22_UnwrapOnSuccess ==
  (call.st = "done" /\ call.method = "get_last_msgs" /\ call.resp.error_code = 0) =>
     /\ call.result.kind = "return"
     /\ call.result.value = Unwrapped(_decode(call.resp.data))

\* the same, for the responses whose data field is neither absent nor empty
UnwrapOfPresentData ==
  (call.st = "done" /\ call.method = "get_last_msgs" /\ call.resp.error_code = 0
     /\ Truthy(call.resp.data)) =>
     /\ call.result.kind = "return"
     /\ call.result.value = Unwrapped(_decode(call.resp.data))

\* C23: login with an empty phone or an empty password raises ZaloUserError
\* and leaves the client as it was: no on_logging_in hook, no credential
\* exchange, no request, no change of the session
C23_LoginValidatesFirst ==
  [][(Called("login") /\ (ret'.arg.phone = "" \/ ret'.arg.password = "")) =>
       /\ ret'.kind = "raise" /\ ret'.value = "ZaloUserError"
       /\ client' = client]_vars

\* login("", "pw", ...) refused on a client that is logged in
C23_Witness ==
  /\ ret.op = "login" /\ ret.arg.phone = "" /\ ret.arg.password = "pw"
  /\ ret.kind = "raise" /\ ret.value = "ZaloUserError"
  /\ is_logged_in(client)

\* the constructor called login: login raised, or its first hook is logged
LoginCalled(r, c) ==
  \/ r.kind = "raise"
  \/ Len(c.log) > 0 /\ c.log[1] = Hook("on_logging_in")

\* C24: the constructor with auto_login calls login exactly when it was
\* given no cookies or cookies that set_session refuses (after cookies that
\* set_session accepts the client is logged in); it then holds the session
\* of the cookies and has made no exchange and no request.  Without
\* auto_login it makes no login and no request.
C24_AutoLogin ==
  [][ret.op = "none" /\ ret'.op # "none" =>
       LET ck == ret'.arg.cookies IN
       IF ret'.op = "__init__"
       THEN /\ LoginCalled(ret', client') <=> (ck = NoCookies \/ ~ProperCookies(ck))
            /\ ~LoginCalled(ret', client') =>
                  /\ client'.log = << >>
                  /\ is_logged_in(client') /\ client'.cookies = ck
       ELSE /\ ~LoginCalled(ret', client')
            /\ client'.log = << >>]_vars

\* constructed with cookies that set_session refused: the login was made
C24_Witness ==
  /\ ret.op = "__init__" /\ ret.n = 1
  /\ ret.arg.cookies = Cookie("dict", "a", NoValue)
  /\ \E k \in 1..Len(client.log) : client.log[k].ev = "exchange" /\ client.log[k].code = 0

\* the entry of key k is new or was given another handler by the step
Reassigned(k) ==
  k \notin DOMAIN register_commands \/ register_commands'[k] # register_commands[k]

\* C25: a registration removes no entry of the command table: every key
\* mapped before is mapped after, to the same handler unless the step
\* registered it anew (the keys it sets all get the step's one handler), and
\* the pattern table keeps its entries, in order, a new one going last
C25_RegistrationsKept ==
  [][nreg' # nreg =>
       /\ \A k \in DOMAIN register_commands : k \in DOMAIN register_commands'
       /\ \A k1, k2 \in DOMAIN register_commands' :
             (Reassigned(k1) /\ Reassigned(k2)) =>
                register_commands'[k1] = register_commands'[k2]
       /\ Len(register_messages') >= Len(register_messages)
       /\ SubSeq(register_messages', 1, Len(register_messages)) = register_messages]_vars

\* the pattern table alone: a registration only appends to it
PatternsKept ==
  [][nreg' # nreg =>
       /\ Len(register_messages') >= Len(register_messages)
       /\ SubSeq(register_messages', 1, Len(register_messages)) = register_messages]_vars

\* C26: a handler that raises ends its own task only: the step changes no
\* other task and nothing of the poll loop, which stays where it was; with
\* failed tasks around, a cycle still creates a task for every fresh item of
\* its snapshot, and every task that has not ended can still take its next
\* step whenever the loop is suspended
C26_RaiseIsContained ==
  /\ [][\A i \in 1..Len(tasks) :
          (Len(tasks') = Len(tasks) /\ tasks[i].st # "failed" /\ tasks'[i].st = "failed") =>
             /\ pc' = pc /\ pc' \in Running
             /\ UNCHANGED <<loopVars, flagVars>>
             /\ \A j \in 1..Len(tasks) : j # i => tasks'[j] = tasks[j]]_vars
  /\ [](pc = "sleeping" =>
          \A j \in 1..Len(AllItems) :
             AllItems[j].ts >= ListenTime =>
                \E i \in 1..Len(tasks) :
                   tasks[i].id = AllItems[j].msgId /\ tasks[i].run = run)
  /\ [](\A i \in 1..Len(tasks) :
          (tasks[i].st \in {"pending", "ready"} /\ pc \in Yielded /\ tasks[i].mode = mode) =>
             ENABLED TaskStep(i, "return"))

\* the handler of one event raised; the event of a later cycle was dispatched
\* and its handler has run to the end
C26_Witness ==
  \E i, j \in 1..Len(tasks) :
     /\ tasks[i].st = "failed" /\ tasks[j].st = "finished"
     /\ tasks[i].fetch < tasks[j].fetch
     /\ Len(tasks[i].inv) = 1

\* place of a call in the order base hook, command handler, pattern handlers
\* by registration
Rank(c) == CASE c.src = "base" -> 0 [] c.src = "cmd" -> 1 [] OTHER -> 1 + c.n

\* C27: the handlers called for one event are called in the order base
\* on_message hook, command handler, pattern handlers by registration, the
\* base hook being the first, and a handler is called only when the one
\* called before it for the same event has returned
C27_ChainOrder ==
  /\ [](\A i \in 1..Len(tasks) :
          LET inv == tasks[i].inv IN
          /\ Len(inv) > 0 => inv[1] = Call("on_message", "base", 0)
          /\ \A a, b \in 1..Len(inv) : a < b => Rank(inv[a]) < Rank(inv[b])
          /\ \A a \in 1..Len(inv) :
                /\ inv[a].src = "cmd" =>
                      /\ Str(tasks[i].content) \in DOMAIN register_commands
                      /\ inv[a].h = register_commands[Str(tasks[i].content)]
                /\ inv[a].src = "msg" =>
                      /\ inv[a].h = register_messages[inv[a].n][1]
                      /\ condition_holds(register_messages[inv[a].n][2], Str(tasks[i].content)))
  /\ [][\A i \in 1..Len(tasks) :
          (Len(tasks') = Len(tasks) /\ tasks'[i].inv # tasks[i].inv) =>
             /\ tasks[i].st \in {"pending", "ready"}
             /\ Len(tasks'[i].inv) = Len(tasks[i].inv) + 1
             /\ SubSeq(tasks'[i].inv, 1, Len(tasks[i].inv)) = tasks[i].inv]_vars

\* the command handler of an event is suspended at an await, a pattern
\* handler that matches the event not yet called
C27_Witness ==
  \E i \in 1..Len(tasks) :
     /\ tasks[i].st = "awaiting"
     /\ Len(tasks[i].inv) = 2 /\ tasks[i].inv[2].src = "cmd"
     /\ \E p \in 1..Len(register_messages) :
           condition_holds(register_messages[p][2], Str(tasks[i].content))

\* the service lists m, inside the look-back window, while a fetch is in flight
ListedInTime(m) ==
  /\ pc = "fetching"
  /\ \E j \in 1..Len(AllItems) :
        AllItems[j].msgId = m /\ AllItems[j].ts >= (now - LookBack) * 1000
Dispatches(m) == {i \in 1..Len(tasks) : tasks[i].id = m}
EventuallyDispatched == \A m \in Ids : ListedInTime(m) ~> (Dispatches(m) # {})

\* C28 as stated: under uninterrupted polling every message listed in time
\* is eventually dispatched, and no message is dispatched more than once
C28_EventuallyExactlyOnce ==
  /\ EventuallyDispatched
  /\ [](\A m \in Ids : Cardinality(Dispatches(m)) <= 1)

\* C28, amended: under uninterrupted polling every message listed in time is
\* eventually dispatched; it is dispatched once between two clears of
\* HasRead, and a second dispatch of the same id is the work of a cycle that
\* follows a clear and finds the message still inside the window
C28_EventuallyOncePerClear ==
  /\ EventuallyDispatched
  /\ [](\A m \in Ids : \A i, j \in Dispatches(m) :
          i < j => /\ tasks[i].epoch < tasks[j].epoch
                   /\ tasks[i].fetch < tasks[j].fetch
                   /\ tasks[j].ts = tasks[i].ts)

\* two cycles have scanned a snapshot holding a message listed in time, which
\* was dispatched by the first of them only
C28_Witness ==
  /\ pc = "sleeping" /\ nfetch = 2 /\ ~condition
  /\ \E j \in 1..Len(AllItems) :
        /\ AllItems[j].ts >= ListenTime
        /\ Cardinality(Dispatches(AllItems[j].msgId)) = 1
        /\ \A i \in Dispatches(AllItems[j].msgId) : tasks[i].fetch = 1

\* C29: a _listen begins at the top of its loop with the stop signal clear,
\* whatever the signal was before (set by an earlier stopListening, or left
\* set by the stop of an earlier loop); a loop leaves for Stopped only on a
\* signal; and a loop at its test with the signal clear goes on to a fetch
\* unless the signal is given first (or the fetches the model follows have
\* all been issued)
C29_StartClearsStop ==
  /\ [][(pc \notin Running /\ pc' \in Running) =>
          (pc' = "top" /\ ~condition' /\ run' = nfetch + 1)]_vars
  /\ [][(pc \in Running /\ pc' = "done") => (pc = "top" /\ condition)]_vars
  /\ []((pc = "top" /\ ~condition /\ nfetch < MaxFetch) =>
          <>(pc = "fetching" \/ condition \/ nfetch >= MaxFetch))

\* a loop reached Stopped, startListening was called again and the new loop
\* has issued its first fetch
C29_Witness ==
  /\ pc = "fetching" /\ ~condition
  /\ run >= 2 /\ nfetch = run

\* C30: a task is created for an id at most once per fetch cycle, also when
\* the id is on both lists of the snapshot, and its thread type is USER when
\* the direct list holds the id, GROUP when it does not
C30_ThreadTypeOfItem ==
  [][Len(tasks') > Len(tasks) =>
       LET t == tasks'[Len(tasks')] IN
       /\ t.thread_type =
            (IF \E j \in 1..Len(messages) : messages[j].msgId = t.id THEN "USER" ELSE "GROUP")
       /\ \A i \in 1..Len(tasks) : ~(tasks[i].id = t.id /\ tasks[i].fetch = t.fetch)]_vars

\* a cycle has scanned a snapshot with m1 on both lists: one task, USER
C30_Witness ==
  /\ pc = "sleeping"
  /\ \E j \in 1..Len(srvMsgs) : srvMsgs[j].msgId = "m1"
  /\ \E j \in 1..Len(srvGroup) : srvGroup[j].msgId = "m1"
  /\ \E j \in 1..Len(srvGroup) : srvGroup[j].msgId = "m2"
  /\ Cardinality({i \in Dispatches("m1") : tasks[i].fetch = nfetch}) = 1
  /\ \A i \in Dispatches("m1") : tasks[i].thread_type = "USER"
  /\ \E i \in Dispatches("m2") : tasks[i].thread_type = "GROUP"
====
